---- MODULE Spec2Model ----
(***************************************************************************)
(* A model of the lambda-s3-static request handler.                        *)
(*                                                                         *)
(* The repository holds two versions of the handler module:                *)
(*   src/index.ts          fetches the request's key only;                 *)
(*   src/unnamed/part_000  adds the index.html fallback (key2).            *)
(* Both are modelled; the variable impl says which module the process has  *)
(* loaded.  A process serves invocations one after the other; the values   *)
(* computed at module load (eBucket) are shared by all of them.            *)
(*                                                                         *)
(* Strings that the code takes apart (the request path, the keys) are      *)
(* sequences of one-character strings; labels the code only compares or    *)
(* copies (content types, etags, error codes) are TLA+ strings.            *)
(***************************************************************************)
EXTENDS Integers, Sequences, FiniteSets, TLC

(***************************************************************************)
(* Bounds of the model.                                                    *)
(***************************************************************************)
MaxPathLen == 2
MaxResolverPathLen == 5
MaxInvocations == 2

(***************************************************************************)
(* fp-ts values: Option and Either.                                        *)
(***************************************************************************)
none == [isSome |-> FALSE]
some(v) == [isSome |-> TRUE, value |-> v]

left(l) == [tag |-> "Left", value |-> l]
right(a) == [tag |-> "Right", value |-> a]
isLeft(ma) == ma.tag = "Left"
isRight(ma) == ma.tag = "Right"

\* fromOption(defaultValue)(fa): Either from Option
fromOption(defaultValue, fa) == IF fa.isSome THEN right(fa.value) ELSE left(defaultValue)

(***************************************************************************)
(* The inputs the environment can supply.                                  *)
(***************************************************************************)
Impls == {"index", "part_000"}
Chars == {"/", ".", "a"}
Paths == UNION {[1..n -> Chars] : n \in 0..MaxPathLen}
Buckets == {none, some("my-bucket")}
ErrorCodes == {"AccessDenied", "InternalError"}
Bodies == {none, some(<<104, 105>>)}
ContentTypes == {none, some("application/x-directory"), some("text/plain"), some("text/html")}
ETags == {none, some("\"abc\"")}
\* An S3.GetObjectOutput: an object on which each of Body, ContentType and ETag is
\* optional; an absent property is a name outside the DOMAIN
GetObjectOutput(b, c, e) ==
  LET opt(f) == CASE f = "Body" -> b [] f = "ContentType" -> c [] f = "ETag" -> e
  IN [f \in {g \in {"Body", "ContentType", "ETag"} : opt(g).isSome} |-> opt(f).value]
GetObjectOutputs == {GetObjectOutput(b, c, e) : b \in Bodies, c \in ContentTypes, e \in ETags}
\* What the callback of s3.getObject can be called with: an error or the data
S3Outcomes == {left([code |-> c]) : c \in ErrorCodes} \cup {right(o) : o \in GetObjectOutputs}

(***************************************************************************)
(* EffError and its constructors.                                          *)
(***************************************************************************)
awsError(error) == [type |-> "AWSError", error |-> error]
invocationError(message) == [type |-> "InvocationError", message |-> message]

(***************************************************************************)
(* Responses.                                                              *)
(***************************************************************************)
\* JSON.stringify of an object with the single string property "message"
\* (no character of the two messages used needs escaping)
JSONstringify(body) == "{\"message\":\"" \o body.message \o "\"}"

\* jsonResponse without the fixed Content-Type property
jsonResponse_NoContentType(headers, body, statusCode) ==
  [headers |-> headers, body |-> JSONstringify(body), statusCode |-> statusCode]

\* { ...headers, 'Content-Type': 'application/json' }: the spread first, then the
\* fixed property, which wins
jsonResponse(headers, body, statusCode) ==
  [headers |-> [h \in DOMAIN headers \cup {"Content-Type"} |->
                  IF h = "Content-Type" THEN "application/json" ELSE headers[h]],
   body |-> JSONstringify(body),
   statusCode |-> statusCode]

NoHeaders == [h \in {} |-> ""]

notFound == jsonResponse(NoHeaders, [message |-> "Not Found"], 404)

internalLambdaErrorResponse == jsonResponse(NoHeaders, [message |-> "Internal lambda error"], 500)

(***************************************************************************)
(* Key Resolver.                                                           *)
(***************************************************************************)
\* String.prototype.slice(start) for start >= 0: the characters from index start on
slice(s, start) == SubSeq(s, start + 1, Len(s))

\* event.path.slice(1)
mapLambdaEventToBucketKey(event) == slice(event.path, 1)

\* 'index.html'
IndexHtml == <<"i", "n", "d", "e", "x", ".", "h", "t", "m", "l">>

\* The pieces of p between its separators ("a//b" has the pieces "a", "", "b"):
\* done holds the pieces already closed by a separator, cur the piece being read
RECURSIVE SegmentsFrom(_, _, _)
SegmentsFrom(p, done, cur) ==
  IF p = <<>> THEN Append(done, cur)
  ELSE IF Head(p) = "/" THEN SegmentsFrom(Tail(p), Append(done, cur), <<>>)
  ELSE SegmentsFrom(Tail(p), done, Append(cur, Head(p)))

Segments(p) == SegmentsFrom(p, <<>>, <<>>)

RECURSIVE JoinSegments(_)
JoinSegments(segs) ==
  IF segs = <<>> THEN <<>>
  ELSE IF Len(segs) = 1 THEN Head(segs)
  ELSE Head(segs) \o <<"/">> \o JoinSegments(Tail(segs))

\* node's normalizeString: empty and "." pieces are dropped, ".." removes the
\* piece before it, or is kept when there is none to remove and the path is relative
RECURSIVE normalizeString(_, _, _)
normalizeString(segs, res, allowAboveRoot) ==
  IF segs = <<>> THEN res
  ELSE LET s == Head(segs)
           next == IF s = <<>> \/ s = <<".">> THEN res
                   ELSE IF s = <<".", ".">>
                        THEN IF res # <<>> /\ res[Len(res)] # <<".", ".">>
                             THEN SubSeq(res, 1, Len(res) - 1)
                             ELSE IF allowAboveRoot THEN Append(res, s) ELSE res
                        ELSE Append(res, s)
       IN normalizeString(Tail(segs), next, allowAboveRoot)

\* path.posix.normalize
normalize(p) ==
  IF p = <<>> THEN <<".">>
  ELSE LET isAbsolute == p[1] = "/"
           trailingSeparator == p[Len(p)] = "/"
           q == JoinSegments(normalizeString(Segments(p), <<>>, ~isAbsolute))
       IN IF q = <<>>
          THEN IF isAbsolute THEN <<"/">>
               ELSE IF trailingSeparator THEN <<".", "/">> ELSE <<".">>
          ELSE (IF isAbsolute THEN <<"/">> ELSE <<>>) \o q
                 \o (IF trailingSeparator THEN <<"/">> ELSE <<>>)

\* path.join as plain concatenation around one separator
pathJoin_Concat(a, b) == a \o <<"/">> \o b

\* path.join(a, b) on the platform the handler runs on (posix): the non-empty
\* arguments joined by one separator, then normalized
pathJoin(a, b) ==
  normalize(IF a = <<>> THEN b ELSE IF b = <<>> THEN a ELSE a \o <<"/">> \o b)

(***************************************************************************)
(* Error classification (part_000).                                        *)
(***************************************************************************)
\* matchEffError with the InvocationError case falling into the AccessDenied handler
matchEffError_InvocationAsDenied(effError, whenAccessDenied, genericAWSError, genericInvocationError) ==
  CASE effError.type = "AWSError" ->
         IF effError.error.code = "AccessDenied" THEN whenAccessDenied ELSE genericAWSError
    [] effError.type = "InvocationError" -> whenAccessDenied

\* matchEffError taking every AWS error for AccessDenied
matchEffError_AnyAWSError(effError, whenAccessDenied, genericAWSError, genericInvocationError) ==
  IF effError.type = "AWSError" THEN whenAccessDenied ELSE genericInvocationError

matchEffError(effError, whenAccessDenied, genericAWSError, genericInvocationError) ==
  CASE effError.type = "AWSError" ->
         IF effError.error.code = "AccessDenied" THEN whenAccessDenied ELSE genericAWSError
    [] effError.type = "InvocationError" -> genericInvocationError

(***************************************************************************)
(* Outcome Interpreter (part_000): what each of the two stages composed    *)
(* around getObject(key1) does with the value it is given.                 *)
(***************************************************************************)
\* getKey2ifKey1IsDirectory taking an object without ContentType for a directory
getKey2ifKey1IsDirectory_AbsentAsDirectory(ma) ==
  IF isRight(ma)
  THEN IF "ContentType" \notin DOMAIN ma.value \/ ma.value.ContentType = "application/x-directory"
       THEN "getObject(key2)"
       ELSE "of(a)"
  ELSE "left"

\* ma.chain(a => switch (a.ContentType) ...)
getKey2ifKey1IsDirectory(ma) ==
  IF isRight(ma)
  THEN IF "ContentType" \in DOMAIN ma.value /\ ma.value.ContentType = "application/x-directory"
       THEN "getObject(key2)"
       ELSE "of(a)"
  ELSE "left"

\* getKey2IfKey1IsNotFound with whenAccessDenied passing the error on
getKey2IfKey1IsNotFound_NoFallback(ma) == IF isLeft(ma) THEN "fromLeft(l)" ELSE "right"

\* ma.orElse(l => matchEffError(l)({...}))
getKey2IfKey1IsNotFound(ma) ==
  IF isLeft(ma)
  THEN matchEffError(ma.value, "getObject(key2)", "fromLeft(l)", "fromLeft(l)")
  ELSE "right"

(***************************************************************************)
(* Response Mapper.                                                        *)
(***************************************************************************)
\* fromNullable(o.f): none for an absent property
fromNullable(o, f) == IF f \in DOMAIN o THEN some(o[f]) ELSE none

\* The characters of the bytes that occur in Bodies
fromCharCode(c) == CASE c = 104 -> "h" [] c = 105 -> "i"

\* Buffer.prototype.toString
RECURSIVE toString(_)
toString(b) == IF b = <<>> THEN "" ELSE fromCharCode(Head(b)) \o toString(Tail(b))

\* create200Response taking its curried arguments in the order body, etag, contentType
create200Response_Swapped(body, contentType, etag) ==
  [body |-> body,
   statusCode |-> 200,
   headers |-> ("Content-Type" :> etag) @@ ("ETag" :> contentType)]

create200Response(body, contentType, etag) ==
  [body |-> body,
   statusCode |-> 200,
   headers |-> ("Content-Type" :> contentType) @@ ("ETag" :> etag)]

\* mapGetObjectOutputToResponse with an empty ETag for an object that has none
mapGetObjectOutputToResponse_OptionalETag(getObjectOutput) ==
  IF {"Body", "ContentType"} \subseteq DOMAIN getObjectOutput
  THEN some([body |-> toString(getObjectOutput.Body),
             statusCode |-> 200,
             headers |-> ("Content-Type" :> getObjectOutput.ContentType)
                           @@ ("ETag" :> IF "ETag" \in DOMAIN getObjectOutput
                                          THEN getObjectOutput.ETag ELSE "")])
  ELSE none

mapGetObjectOutputToResponse(getObjectOutput) ==
  LET oBody == IF fromNullable(getObjectOutput, "Body").isSome
               THEN some(toString(fromNullable(getObjectOutput, "Body").value))
               ELSE none
      oContentType == fromNullable(getObjectOutput, "ContentType")
      oETag == fromNullable(getObjectOutput, "ETag")
  IN IF oETag.isSome /\ oContentType.isSome /\ oBody.isSome
     THEN some(create200Response(oBody.value, oContentType.value, oETag.value))
     ELSE none

getObjectOutputToResponse(ma) ==
  IF isRight(ma)
  THEN fromOption(invocationError("Unexpected getObjectOutput"),
                  mapGetObjectOutputToResponse(ma.value))
  ELSE ma

(***************************************************************************)
(* Error Policy.                                                           *)
(***************************************************************************)
\* handleAccessDeniend answering Not Found for every AWS error
handleAccessDeniend_AnyAWSError(ma) ==
  IF isLeft(ma) /\ ma.value.type = "AWSError" THEN right(notFound) ELSE ma

\* part_000: through matchEffError
handleAccessDeniend(ma) ==
  IF isLeft(ma) THEN matchEffError(ma.value, right(notFound), ma, ma) ELSE ma

\* index.ts: the same decision written as two nested switches
handleAccessDeniendSwitch(ma) ==
  IF isLeft(ma)
  THEN IF ma.value.type = "AWSError"
       THEN IF ma.value.error.code = "AccessDenied" THEN right(notFound) ELSE ma
       ELSE ma
  ELSE ma

\* logError re-raising a new error in place of the one it logged
logError_Rewraps(ma) ==
  IF isLeft(ma)
  THEN [ma |-> left(invocationError("logged")), console |-> <<ma.value>>]
  ELSE [ma |-> ma, console |-> <<>>]

\* logError without the console write
logError_Silent(ma) == [ma |-> ma, console |-> <<>>]

\* logError without .chain(() => fromLeft(effError)): the Right(undefined) of the IO
logError_DropsError(ma) ==
  IF isLeft(ma)
  THEN [ma |-> right([undefined |-> TRUE]), console |-> <<ma.value>>]
  ELSE [ma |-> ma, console |-> <<>>]

\* The value logError leaves in the pipeline and what it writes with console.error
logError(ma) ==
  IF isLeft(ma)
  THEN [ma |-> left(ma.value), console |-> <<ma.value>>]
  ELSE [ma |-> ma, console |-> <<>>]

\* handleLeft without the fold: whatever the Either holds is returned
handleLeft_NoFold(ma) == ma.value

handleLeft(ma) == IF isLeft(ma) THEN internalLambdaErrorResponse ELSE ma.value

(***************************************************************************)
(* The process and the invocation in progress.                             *)
(***************************************************************************)
VARIABLES
  impl,         \* the handler module the process has loaded
  oBucket,      \* fromNullable(process.env.BUCKET), read once at module load
  invocations,  \* how many times the runtime has called handler
  event,        \* the APIGatewayProxyEvent of the invocation
  pc,           \* the stage of the composed pipeline that runs next
  key,          \* the result of mapLambdaEventToBucketKey
  key1,         \* part_000, getObjectEffect: the key itself
  key2,         \* part_000, getObjectEffect: the key to try when key 1 is not found
  ma,           \* the Either the pipeline holds between two stages
  inflight,     \* the s3.getObject requests that have not called back yet
  trace,        \* what the invocation did: stages entered, S3 calls, console writes
  response      \* what the promise of the invocation resolved with

vars == <<impl, oBucket, invocations, event, pc, key, key1, key2, ma, inflight, trace, response>>

\* The pipeline value before any stage has produced one
Void == [tag |-> "Void"]

\* eBucket falling back to an empty bucket name
eBucket_DefaultBucket == IF oBucket.isSome THEN right(oBucket.value) ELSE right("")

eBucket == fromOption(invocationError("Missing BUCKET env"), oBucket)

Stages == {"mapLambdaEventToBucketKey", "getObjectEffect",
           "getKey2ifKey1IsDirectory", "getKey2IfKey1IsNotFound",
           "getObjectOutputToResponse", "handleAccessDeniend", "logError", "handleLeft"}
Awaits == {"await getObject(key1)", "await getObject(key2) ifKey1IsDirectory",
           "await getObject(key2) IfKey1IsNotFound"}

\* The composition with the directory check applied to the result of the not-found
\* fallback as well
Continuation_Recheck(at) ==
  CASE at = "await getObject(key1)" ->
         IF impl = "part_000" THEN "getKey2ifKey1IsDirectory" ELSE "getObjectOutputToResponse"
    [] at = "await getObject(key2) ifKey1IsDirectory" -> "getKey2IfKey1IsNotFound"
    [] at = "await getObject(key2) IfKey1IsNotFound" -> "getKey2ifKey1IsDirectory"

\* The stage that consumes the result of a getObject
Continuation(at) ==
  CASE at = "await getObject(key1)" ->
         IF impl = "part_000" THEN "getKey2ifKey1IsDirectory" ELSE "getObjectOutputToResponse"
    [] at = "await getObject(key2) ifKey1IsDirectory" -> "getKey2IfKey1IsNotFound"
    [] at = "await getObject(key2) IfKey1IsNotFound" -> "getObjectOutputToResponse"

Entered(stage) == Append(trace, [ev |-> stage, arg |-> ma])

Init ==
  /\ impl \in Impls
  /\ oBucket \in Buckets
  /\ invocations = 0
  /\ event = [path |-> <<>>]
  /\ pc = "Idle"
  /\ key = <<>>
  /\ key1 = <<>>
  /\ key2 = <<>>
  /\ ma = Void
  /\ inflight = {}
  /\ trace = <<>>
  /\ response = none

\* The runtime calls handler(event); the process serves one invocation at a time
Handler(path) ==
  /\ pc \in {"Idle", "Done"}
  /\ invocations < MaxInvocations
  /\ invocations' = invocations + 1
  /\ event' = [path |-> path]
  /\ pc' = "mapLambdaEventToBucketKey"
  /\ key' = <<>>
  /\ key1' = <<>>
  /\ key2' = <<>>
  /\ ma' = Void
  /\ inflight' = {}
  /\ trace' = <<>>
  /\ response' = none
  /\ UNCHANGED <<impl, oBucket>>

MapLambdaEventToBucketKey ==
  /\ pc = "mapLambdaEventToBucketKey"
  /\ key' = mapLambdaEventToBucketKey(event)
  /\ pc' = "getObjectEffect"
  /\ UNCHANGED <<impl, oBucket, invocations, event, key1, key2, ma, inflight, trace, response>>

\* getObject issuing the request for the index document of k along with the one for k
getObject_Parallel(tr, k, await) ==
  IF isRight(eBucket)
  THEN LET params == [Key |-> k, Bucket |-> eBucket.value]
           ahead == [Key |-> pathJoin(k, IndexHtml), Bucket |-> eBucket.value]
       IN /\ inflight' = inflight \cup {params, ahead}
          /\ trace' = tr \o <<[ev |-> "s3.getObject", arg |-> params],
                               [ev |-> "s3.getObject", arg |-> ahead]>>
          /\ pc' = await
          /\ ma' = ma
  ELSE /\ ma' = eBucket
       /\ pc' = Continuation(await)
       /\ trace' = tr
       /\ inflight' = inflight

\* getObject(k): with a bucket, one s3.getObject whose callback resumes the pipeline
\* at Continuation(await); without one, the Left of eBucket and no request
getObject(tr, k, await) ==
  IF isRight(eBucket)
  THEN LET params == [Key |-> k, Bucket |-> eBucket.value]
       IN /\ inflight' = inflight \cup {params}
          /\ trace' = Append(tr, [ev |-> "s3.getObject", arg |-> params])
          /\ pc' = await
          /\ ma' = ma
  ELSE /\ ma' = eBucket
       /\ pc' = Continuation(await)
       /\ trace' = tr
       /\ inflight' = inflight

GetObjectEffect ==
  /\ pc = "getObjectEffect"
  /\ IF impl = "part_000"
     THEN /\ key1' = key
          /\ key2' = pathJoin(key, IndexHtml)
     ELSE UNCHANGED <<key1, key2>>
  /\ getObject(Entered("getObjectEffect"), key, "await getObject(key1)")
  /\ UNCHANGED <<impl, oBucket, invocations, event, key, response>>

\* s3 calls the callback of a pending request: taskify resolves with Left(err) or
\* Right(data), and mapLeft(awsError) wraps the error
S3GetObjectCallback ==
  /\ pc \in Awaits
  /\ \E params \in inflight, outcome \in S3Outcomes :
       /\ inflight' = inflight \ {params}
       /\ ma' = IF isLeft(outcome) THEN left(awsError(outcome.value)) ELSE outcome
       /\ trace' = Append(trace, [ev |-> "callback", arg |-> ma'])
  /\ pc' = Continuation(pc)
  /\ UNCHANGED <<impl, oBucket, invocations, event, key, key1, key2, response>>

GetKey2ifKey1IsDirectory ==
  /\ pc = "getKey2ifKey1IsDirectory"
  /\ IF getKey2ifKey1IsDirectory(ma) = "getObject(key2)"
     THEN getObject(Entered("getKey2ifKey1IsDirectory"), key2,
                    "await getObject(key2) ifKey1IsDirectory")
     ELSE /\ pc' = "getKey2IfKey1IsNotFound"
          /\ trace' = Entered("getKey2ifKey1IsDirectory")
          /\ UNCHANGED <<ma, inflight>>
  /\ UNCHANGED <<impl, oBucket, invocations, event, key, key1, key2, response>>

GetKey2IfKey1IsNotFound ==
  /\ pc = "getKey2IfKey1IsNotFound"
  /\ IF getKey2IfKey1IsNotFound(ma) = "getObject(key2)"
     THEN getObject(Entered("getKey2IfKey1IsNotFound"), key2,
                    "await getObject(key2) IfKey1IsNotFound")
     ELSE /\ pc' = "getObjectOutputToResponse"
          /\ trace' = Entered("getKey2IfKey1IsNotFound")
          /\ UNCHANGED <<ma, inflight>>
  /\ UNCHANGED <<impl, oBucket, invocations, event, key, key1, key2, response>>

GetObjectOutputToResponse ==
  /\ pc = "getObjectOutputToResponse"
  /\ ma' = getObjectOutputToResponse(ma)
  /\ trace' = Entered("getObjectOutputToResponse")
  /\ pc' = "handleAccessDeniend"
  /\ UNCHANGED <<impl, oBucket, invocations, event, key, key1, key2, inflight, response>>

HandleAccessDeniend ==
  /\ pc = "handleAccessDeniend"
  /\ ma' = IF impl = "part_000" THEN handleAccessDeniend(ma) ELSE handleAccessDeniendSwitch(ma)
  /\ trace' = Entered("handleAccessDeniend")
  /\ pc' = "logError"
  /\ UNCHANGED <<impl, oBucket, invocations, event, key, key1, key2, inflight, response>>

LogError ==
  /\ pc = "logError"
  /\ ma' = logError(ma).ma
  /\ trace' = Entered("logError")
                \o [i \in 1..Len(logError(ma).console) |->
                      [ev |-> "console.error", arg |-> logError(ma).console[i]]]
  /\ pc' = "handleLeft"
  /\ UNCHANGED <<impl, oBucket, invocations, event, key, key1, key2, inflight, response>>

\* handleLeft folds the Either into the Response and unsafeRunTask's promise
\* resolves with it
HandleLeft ==
  /\ pc = "handleLeft"
  /\ response' = some(handleLeft(ma))
  /\ trace' = Append(Entered("handleLeft"), [ev |-> "resolve", arg |-> handleLeft(ma)])
  /\ pc' = "Done"
  /\ UNCHANGED <<impl, oBucket, invocations, event, key, key1, key2, ma, inflight>>

Next ==
  \/ \E path \in Paths : Handler(path)
  \/ MapLambdaEventToBucketKey
  \/ GetObjectEffect
  \/ S3GetObjectCallback
  \/ GetKey2ifKey1IsDirectory
  \/ GetKey2IfKey1IsNotFound
  \/ GetObjectOutputToResponse
  \/ HandleAccessDeniend
  \/ LogError
  \/ HandleLeft

Spec == Init /\ [][Next]_vars

\* The stages of the pipeline and the callback of S3
Pipeline ==
  \/ MapLambdaEventToBucketKey
  \/ GetObjectEffect
  \/ S3GetObjectCallback
  \/ GetKey2ifKey1IsDirectory
  \/ GetKey2IfKey1IsNotFound
  \/ GetObjectOutputToResponse
  \/ HandleAccessDeniend
  \/ LogError
  \/ HandleLeft

\* A stage that can run does run, and every request issued to S3 is eventually
\* answered; the runtime is not obliged to invoke the handler again
FairSpec == Spec /\ WF_vars(Pipeline)

(***************************************************************************)
(* What the trace of an invocation records.                                *)
(***************************************************************************)
Events(ev) == SelectSeq(trace, LAMBDA e : e.ev = ev)

\* The requests sent to S3, the results its callbacks delivered, the console writes
\* and the values the promise resolved with, each in the order they happened
Requests == Events("s3.getObject")
Results == Events("callback")
Console == Events("console.error")
Resolved == Events("resolve")

\* The positions in the trace of the events named ev
Positions(ev) == {i \in 1..Len(trace) : trace[i].ev = ev}

TypeOK ==
  /\ impl \in Impls
  /\ oBucket \in Buckets
  /\ invocations \in 0..MaxInvocations
  /\ event.path \in Paths
  /\ pc \in {"Idle", "Done"} \cup Stages \cup Awaits
  /\ Cardinality(inflight) <= 1
  /\ response.isSome \in BOOLEAN

(***************************************************************************)
(* Vocabulary of the properties.                                           *)
(***************************************************************************)
HasEntered(stage) == Positions(stage) # {}

\* The value a stage was given (each stage runs once in an invocation)
StageInput(stage) == Events(stage)[1].arg

Last(seq) == seq[Len(seq)]

IsResponse(r) ==
  /\ DOMAIN r = {"headers", "statusCode", "body"}
  /\ r.statusCode \in Nat

IsAccessDenied(result) ==
  /\ isLeft(result)
  /\ result.value.type = "AWSError"
  /\ result.value.error.code = "AccessDenied"

IsOtherAWSError(result) ==
  /\ isLeft(result)
  /\ result.value.type = "AWSError"
  /\ result.value.error.code # "AccessDenied"

IsDirectory(result) ==
  /\ isRight(result)
  /\ "ContentType" \in DOMAIN result.value
  /\ result.value.ContentType = "application/x-directory"

Finished == pc = "Done" /\ response.isSome

NotFound404 ==
  [statusCode |-> 404,
   headers |-> [h \in {"Content-Type"} |-> "application/json"],
   body |-> "{\"message\":\"Not Found\"}"]

InternalError500 ==
  [statusCode |-> 500,
   headers |-> [h \in {"Content-Type"} |-> "application/json"],
   body |-> "{\"message\":\"Internal lambda error\"}"]

(***************************************************************************)
(* C1: every invocation produces exactly one Response, whose statusCode is *)
(* 200, 404 or 500, whatever the path, the bucket configuration and the    *)
(* answers of S3; the caller never receives an EffError.  Until the        *)
(* pipeline is done nothing has been returned.                             *)
(***************************************************************************)
C1_ExactlyOneResponse ==
  /\ pc = "Done" =>
       /\ Len(Resolved) = 1
       /\ response = some(Resolved[1].arg)
       /\ IsResponse(response.value)
       /\ response.value.statusCode \in {200, 404, 500}
  /\ pc # "Done" =>
       /\ Len(Resolved) = 0
       /\ response = none

C1_Witness ==
  /\ Finished
  /\ response.value.statusCode = 200
  /\ invocations = MaxInvocations

(***************************************************************************)
(* C2: an invocation that has started eventually reaches Done holding a    *)
(* Response, provided every request issued to S3 is answered.              *)
(***************************************************************************)
C2_EventuallyDone ==
  (pc \notin {"Idle", "Done"}) ~> (pc = "Done" /\ response.isSome /\ IsResponse(response.value))

C2_Witness ==
  /\ Finished
  /\ IsResponse(response.value)
  /\ Len(Results) = 2

(***************************************************************************)
(* C3: within one invocation S3 is called at most twice: once for the      *)
(* primary key and at most once for the secondary key.                     *)
(***************************************************************************)
C3_AtMostTwoFetches == Len(Requests) <= 2

(***************************************************************************)
(* C4: when the primary fetch succeeds with the directory content type,    *)
(* the value given to the Response Mapper is the result of the fetch of    *)
(* the secondary key that followed it, whatever that result is.            *)
(***************************************************************************)
C4_DirectoryYieldsSecondaryResult ==
  (/\ impl = "part_000"
   /\ HasEntered("getObjectOutputToResponse")
   /\ Len(Results) >= 1
   /\ IsDirectory(Results[1].arg))
  => StageInput("getObjectOutputToResponse") = Results[2].arg

(***************************************************************************)
(* C5: in the fallback pipeline, when the primary fetch fails with         *)
(* AccessDenied, exactly one fetch of the secondary key is issued and the  *)
(* Response Mapper is given the result of that fetch, success or failure;  *)
(* nothing is fetched after it.                                            *)
(***************************************************************************)
C5_AccessDeniedYieldsSecondaryResult ==
  (/\ impl = "part_000"
   /\ Len(Results) >= 1
   /\ IsAccessDenied(Results[1].arg))
  => /\ Len(Requests) <= 2
     /\ pc \notin {"getKey2ifKey1IsDirectory", "getKey2IfKey1IsNotFound"} =>
          /\ Len(Requests) = 2
          /\ Requests[1].arg.Key = mapLambdaEventToBucketKey(event)
          /\ Requests[2].arg.Key = pathJoin(mapLambdaEventToBucketKey(event), IndexHtml)
     /\ HasEntered("getObjectOutputToResponse") =>
          /\ Len(Results) = 2
          /\ StageInput("getObjectOutputToResponse") = Results[2].arg

C5_Witness ==
  /\ Finished
  /\ impl = "part_000"
  /\ Len(Results) = 2
  /\ IsAccessDenied(Results[1].arg)
  /\ isRight(Results[2].arg)
  /\ response.value.statusCode = 200

(***************************************************************************)
(* C6: when the primary fetch fails with a storage code other than         *)
(* AccessDenied, the secondary key is never fetched, the Response Mapper   *)
(* is given that same error, and the invocation ends in the 500 response.  *)
(***************************************************************************)
C6_OtherErrorPassesThrough ==
  (Len(Results) >= 1 /\ IsOtherAWSError(Results[1].arg))
  => /\ Len(Requests) = 1
     /\ Len(Results) = 1
     /\ HasEntered("getObjectOutputToResponse") =>
          StageInput("getObjectOutputToResponse") = Results[1].arg
     /\ HasEntered("handleAccessDeniend") =>
          StageInput("handleAccessDeniend") = Results[1].arg
     /\ pc = "Done" => response = some(InternalError500)

C6_Witness ==
  /\ Finished
  /\ impl = "part_000"
  /\ Len(Results) = 1
  /\ IsOtherAWSError(Results[1].arg)
  /\ response.value.statusCode = 500

(***************************************************************************)
(* C7: an AccessDenied storage error that reaches the error policy gives   *)
(* the fixed 404 response; any other error that reaches it gives the fixed *)
(* 500 response.                                                           *)
(***************************************************************************)
C7_ErrorPolicyMapping ==
  (pc = "Done" /\ isLeft(StageInput("handleAccessDeniend")))
  => IF IsAccessDenied(StageInput("handleAccessDeniend"))
     THEN response = some(NotFound404)
     ELSE response = some(InternalError500)

C7_Witness ==
  /\ Finished
  /\ IsAccessDenied(StageInput("handleAccessDeniend"))
  /\ response.value.statusCode = 404

(***************************************************************************)
(* C8: an invocation that ends in the 500 response has written to the      *)
(* console exactly once, the error the pipeline ended with, after every    *)
(* S3 request had been answered and before the response was returned; an   *)
(* invocation that ends in 404 or 200 has written nothing.                 *)
(***************************************************************************)
\* The error an invocation with a Left outcome ends with: of the configuration, of
\* the last answer of S3, or of the Response Mapper
OriginalError ==
  IF Len(Results) = 0 THEN invocationError("Missing BUCKET env")
  ELSE IF isLeft(Last(Results).arg) THEN Last(Results).arg.value
  ELSE invocationError("Unexpected getObjectOutput")

C8_SinkExactlyOnceOn500 ==
  /\ Len(Console) <= 1
  /\ \A i \in Positions("console.error") :
       /\ \A j \in Positions("s3.getObject") \cup Positions("callback") : j < i
       /\ \A j \in Positions("resolve") : i < j
       /\ Len(Requests) = Len(Results)
  /\ pc = "Done" =>
       IF response.value.statusCode = 500
       THEN /\ Len(Console) = 1
            /\ Console[1].arg = OriginalError
            /\ Console[1].arg = StageInput("logError").value
       ELSE Len(Console) = 0

C8_Witness ==
  /\ Finished
  /\ response.value.statusCode = 500
  /\ Len(Console) = 1
  /\ Len(Results) >= 1
  /\ isRight(Last(Results).arg)

(***************************************************************************)
(* C9: the Response Mapper, given a fetched object with Body, ContentType  *)
(* and ETag, yields the 200 response with the body as text and exactly the *)
(* headers Content-Type and ETag of the object; given an object that lacks *)
(* any of the three it yields an InvocationError, and nothing of the       *)
(* object reaches the response.                                            *)
(***************************************************************************)
C9_ResponseMapperTotal ==
  (HasEntered("handleAccessDeniend") /\ isRight(StageInput("getObjectOutputToResponse")))
  => LET o == StageInput("getObjectOutputToResponse").value
         out == StageInput("handleAccessDeniend")
     IN IF {"Body", "ContentType", "ETag"} \subseteq DOMAIN o
        THEN /\ isRight(out)
             /\ out.value.statusCode = 200
             /\ out.value.body = toString(o.Body)
             /\ o.Body = <<104, 105>> => out.value.body = "hi"
             /\ DOMAIN out.value.headers = {"Content-Type", "ETag"}
             /\ out.value.headers["Content-Type"] = o.ContentType
             /\ out.value.headers["ETag"] = o.ETag
             /\ pc = "Done" => response = some(out.value)
        ELSE /\ isLeft(out)
             /\ out.value.type = "InvocationError"
             /\ DOMAIN out.value = {"type", "message"}
             /\ pc = "Done" => response = some(InternalError500)

C9_Witness ==
  /\ pc = "logError"
  /\ isRight(StageInput("getObjectOutputToResponse"))
  /\ DOMAIN StageInput("getObjectOutputToResponse").value = {"Body", "ContentType", "ETag"}
  /\ isRight(StageInput("handleAccessDeniend"))
  /\ StageInput("handleAccessDeniend").value.headers["ETag"] = "\"abc\""

(***************************************************************************)
(* C10: without a bucket configuration every invocation, whatever its      *)
(* path, ends in the 500 response and never in 404 or 200.                 *)
(***************************************************************************)
C10_MissingBucketIs500 ==
  (~oBucket.isSome /\ pc = "Done")
  => /\ response = some(InternalError500)
     /\ response.value.statusCode \notin {200, 404}

C10_Witness ==
  /\ Finished
  /\ ~oBucket.isSome
  /\ response.value.statusCode = 500
  /\ Len(event.path) = MaxPathLen

(***************************************************************************)
(* C11: the fetches of an invocation are strictly sequential: a request is *)
(* sent to S3 only when every earlier request has been answered, so the    *)
(* secondary key is fetched only after the primary fetch has completed and *)
(* at most one request is in flight.                                       *)
(***************************************************************************)
C11_FetchesSequential ==
  /\ Cardinality(inflight) <= 1
  /\ Len(Requests) - Len(Results) = Cardinality(inflight)
  /\ \A i \in Positions("s3.getObject") :
       Cardinality({j \in Positions("s3.getObject") : j < i})
         = Cardinality({j \in Positions("callback") : j < i})
  /\ Len(Requests) >= 2 => Len(Results) >= 1

C11_Witness ==
  /\ pc \in Awaits
  /\ Len(Requests) = 2
  /\ Len(Results) = 1
  /\ Cardinality(inflight) = 1

(***************************************************************************)
(* The Key Resolver on its own: the two steps of an invocation that turn   *)
(* the request path into the keys, for paths long enough to hold a ".."    *)
(* segment after another segment.                                          *)
(***************************************************************************)
ResolverPaths == UNION {[1..n -> Chars] : n \in 0..MaxResolverPathLen}

\* The state in which handler has just been called with the event
ResolverInit ==
  /\ impl \in Impls
  /\ oBucket \in Buckets
  /\ invocations = 1
  /\ event \in [path : ResolverPaths]
  /\ pc = "mapLambdaEventToBucketKey"
  /\ key = <<>>
  /\ key1 = <<>>
  /\ key2 = <<>>
  /\ ma = Void
  /\ inflight = {}
  /\ trace = <<>>
  /\ response = none

ResolverNext == MapLambdaEventToBucketKey \/ GetObjectEffect

ResolverSpec == ResolverInit /\ [][ResolverNext]_vars

KeyResolved == pc \notin {"Idle", "mapLambdaEventToBucketKey"}

KeysResolved == impl = "part_000" /\ pc \notin {"Idle", "mapLambdaEventToBucketKey", "getObjectEffect"}

(***************************************************************************)
(* C12: the primary key is the request path with exactly one leading       *)
(* separator removed and nothing else changed; a path that does not begin  *)
(* with a separator, and the empty path, are the key as they are.          *)
(***************************************************************************)
C12_PrimaryKeyStripsOneSeparator ==
  KeyResolved =>
    key = IF event.path # <<>> /\ event.path[1] = "/" THEN Tail(event.path) ELSE event.path

(***************************************************************************)
(* C13: the secondary key is the primary key joined with index.html.       *)
(* As claimed: the key followed by index.html when the key ends in a       *)
(* separator, and the key, one separator and index.html when it does not.  *)
(***************************************************************************)
C13_SecondaryKeyIsPlainJoin ==
  KeysResolved =>
    key2 = IF key # <<>> /\ key[Len(key)] = "/"
           THEN key \o IndexHtml
           ELSE key \o <<"/">> \o IndexHtml

\* A key that path.join has nothing to normalise in: not empty, no two separators
\* in a row, no "." and no ".." piece
PlainKey(k) ==
  /\ k # <<>>
  /\ \A i \in 1..(Len(k) - 1) : ~(k[i] = "/" /\ k[i + 1] = "/")
  /\ \A i \in 1..Len(Segments(k)) : Segments(k)[i] \notin {<<".">>, <<".", ".">>}

(***************************************************************************)
(* C13, as amended: for a key that is not empty and has no empty, "." or   *)
(* ".." piece the secondary key is as claimed; for the empty key it is     *)
(* index.html without a separator; for every key it ends in index.html,    *)
(* has no two separators in a row and no "." piece, and has ".." pieces    *)
(* only at its start.                                                      *)
(***************************************************************************)
C13_SecondaryKeyIsNormalizedJoin ==
  KeysResolved =>
    /\ key1 = key
    /\ key = <<>> => key2 = IndexHtml
    /\ PlainKey(key) =>
         key2 = IF key[Len(key)] = "/" THEN key \o IndexHtml ELSE key \o <<"/">> \o IndexHtml
    /\ Len(key2) >= Len(IndexHtml)
    /\ SubSeq(key2, Len(key2) - Len(IndexHtml) + 1, Len(key2)) = IndexHtml
    /\ \A i \in 1..(Len(key2) - 1) : ~(key2[i] = "/" /\ key2[i + 1] = "/")
    /\ \A i \in 1..Len(Segments(key2)) :
         /\ Segments(key2)[i] # <<".">>
         /\ Segments(key2)[i] = <<".", ".">> =>
              \A j \in 1..(i - 1) : Segments(key2)[j] = <<".", ".">>

C13_Witness ==
  /\ KeysResolved
  /\ PlainKey(key)
  /\ Len(key) = 3
  /\ key[2] = "/"
  /\ key2 = key \o <<"/">> \o IndexHtml

(***************************************************************************)
(* C14: an invocation error is terminal: once the pipeline holds one, no   *)
(* request is sent to S3 any more and the invocation ends in the 500       *)
(* response, never in 404.  A primary fetch that succeeds with a content   *)
(* type that is absent or not the directory type is never followed by a    *)
(* fetch of the secondary key.                                             *)
(***************************************************************************)
IsInvocationError(result) == isLeft(result) /\ result.value.type = "InvocationError"

\* The positions of the trace at which the pipeline held an invocation error
InvocationErrorAt ==
  {i \in 1..Len(trace) : trace[i].ev \in Stages /\ IsInvocationError(trace[i].arg)}

C14_InvocationErrorTerminal ==
  /\ IsInvocationError(ma) => inflight = {} /\ pc \notin Awaits
  /\ \A i \in InvocationErrorAt :
       /\ \A j \in Positions("s3.getObject") \cup Positions("callback") : j < i
       /\ \A j \in (i + 1)..Len(trace) :
            trace[j].ev \in Stages => trace[j].arg = trace[i].arg
  /\ (pc = "Done" /\ InvocationErrorAt # {}) =>
       /\ response = some(InternalError500)
       /\ response.value.statusCode # 404
  /\ (Len(Results) >= 1 /\ isRight(Results[1].arg) /\ ~IsDirectory(Results[1].arg)) =>
       /\ Len(Requests) = 1
       /\ Len(Results) = 1

C14_Witness ==
  /\ Finished
  /\ impl = "part_000"
  /\ Len(Results) = 1
  /\ isRight(Results[1].arg)
  /\ "ContentType" \notin DOMAIN Results[1].arg.value
  /\ IsInvocationError(StageInput("handleAccessDeniend"))
  /\ response.value.statusCode = 500

(***************************************************************************)
(* C15: logError leaves the value of the pipeline as it is: a Right passes *)
(* without a console write, a Left is written once and re-raised as the    *)
(* same error; the response is the one handleLeft gives for the value that *)
(* entered logError.                                                       *)
(***************************************************************************)
C15_LoggingLeavesValueUnchanged ==
  HasEntered("handleLeft") =>
    LET in == StageInput("logError")
        out == StageInput("handleLeft")
    IN /\ out = in
       /\ isRight(in) => Len(Console) = 0
       /\ isLeft(in) => (Len(Console) = 1 /\ Console[1].arg = in.value)
       /\ pc = "Done" =>
            response = some(IF isLeft(in) THEN InternalError500 ELSE in.value)

C15_Witness ==
  /\ Finished
  /\ isLeft(StageInput("logError"))
  /\ StageInput("logError").value.type = "AWSError"
  /\ StageInput("handleLeft") = StageInput("logError")
  /\ Len(Console) = 1

(***************************************************************************)
(* C16: the handler with the fallback answers 404 only when it has fetched *)
(* the secondary key and the last answer of S3 was AccessDenied; never     *)
(* after the primary fetch alone and never without a bucket.               *)
(***************************************************************************)
C16_NotFoundOnlyAfterSecondary ==
  (impl = "part_000" /\ pc = "Done" /\ response.value.statusCode = 404) =>
    /\ oBucket.isSome
    /\ Len(Requests) >= 2
    /\ Len(Results) = Len(Requests)
    /\ Last(Requests).arg.Key = pathJoin(mapLambdaEventToBucketKey(event), IndexHtml)
    /\ IsAccessDenied(Last(Results).arg)
    /\ IsAccessDenied(Results[1].arg) \/ IsDirectory(Results[1].arg)

C16_Witness ==
  /\ Finished
  /\ impl = "part_000"
  /\ response.value.statusCode = 404
  /\ Len(Requests) = 2
  /\ IsAccessDenied(Results[1].arg)

(***************************************************************************)
(* C17: the response is a 200 exactly when the last answer of S3 was an    *)
(* object with Body, ContentType and ETag, and then its body, Content-Type *)
(* and ETag are those of that object, not of an object fetched before it.  *)
(***************************************************************************)
C17_OkIffLastObjectComplete ==
  pc = "Done" =>
    LET complete == /\ Len(Results) >= 1
                    /\ isRight(Last(Results).arg)
                    /\ {"Body", "ContentType", "ETag"} \subseteq DOMAIN Last(Results).arg.value
    IN /\ (response.value.statusCode = 200) <=> complete
       /\ complete =>
            /\ response.value.body = toString(Last(Results).arg.value.Body)
            /\ response.value.headers =
                 ("Content-Type" :> Last(Results).arg.value.ContentType)
                   @@ ("ETag" :> Last(Results).arg.value.ETag)
       /\ (complete /\ Len(Results) >= 2 /\ IsDirectory(Results[1].arg)
             /\ ~IsDirectory(Last(Results).arg)) =>
            response.value.headers["Content-Type"] # Results[1].arg.value.ContentType

C17_Witness ==
  /\ Finished
  /\ Len(Results) = 2
  /\ IsDirectory(Results[1].arg)
  /\ DOMAIN Results[1].arg.value = {"Body", "ContentType", "ETag"}
  /\ response.value.statusCode = 200
  /\ response.value.headers["Content-Type"] = "text/html"

(***************************************************************************)
(* C18: the directory check applies to the primary fetch only: after an    *)
(* AccessDenied on the primary key, a secondary object with the directory  *)
(* content type (and Body and ETag) is not followed by another fetch and   *)
(* is answered as a 200 with Content-Type application/x-directory.         *)
(***************************************************************************)
C18_DirectoryCheckOnPrimaryOnly ==
  (/\ impl = "part_000"
   /\ Len(Results) >= 2
   /\ IsAccessDenied(Results[1].arg)
   /\ IsDirectory(Results[2].arg)
   /\ {"Body", "ETag"} \subseteq DOMAIN Results[2].arg.value)
  => /\ Len(Requests) = 2
     /\ Len(Results) = 2
     /\ pc \notin Awaits
     /\ pc = "Done" =>
          /\ response.value.statusCode = 200
          /\ response.value.headers["Content-Type"] = "application/x-directory"

C18_Witness ==
  /\ Finished
  /\ impl = "part_000"
  /\ Len(Results) = 2
  /\ IsAccessDenied(Results[1].arg)
  /\ IsDirectory(Results[2].arg)
  /\ response.value.statusCode = 200
  /\ response.value.headers["Content-Type"] = "application/x-directory"

(***************************************************************************)
(* The handler of index.ts as one function of what getObject(key) yields:  *)
(* the stages composed after getObjectEffect, with the console writes.     *)
(***************************************************************************)
indexHandler(fetched) ==
  LET logged == logError(handleAccessDeniendSwitch(getObjectOutputToResponse(fetched)))
  IN [response |-> handleLeft(logged.ma),
      console |-> [i \in 1..Len(logged.console) |->
                     [ev |-> "console.error", arg |-> logged.console[i]]]]

\* What getObject(key1) yielded in this invocation: the Left of eBucket when no
\* request was sent, else the first answer of S3
PrimaryFetched == IF Len(Requests) = 0 THEN eBucket ELSE Results[1].arg

(***************************************************************************)
(* C19: the two handlers agree wherever the fallback is not taken: when    *)
(* the bucket is missing, or the primary fetch neither fails with          *)
(* AccessDenied nor yields a directory, either handler sends the same      *)
(* single request (or none), writes the same to the console and returns    *)
(* the same response, namely what index.ts computes from the primary       *)
(* fetch.                                                                  *)
(***************************************************************************)
C19_HandlersAgreeWithoutFallback ==
  (/\ pc = "Done"
   /\ \/ ~oBucket.isSome
      \/ /\ Len(Results) >= 1
         /\ ~IsAccessDenied(Results[1].arg)
         /\ ~IsDirectory(Results[1].arg))
  => /\ Len(Requests) = (IF oBucket.isSome THEN 1 ELSE 0)
     /\ Len(Results) = Len(Requests)
     /\ \A i \in 1..Len(Requests) :
          Requests[i].arg = [Key |-> slice(event.path, 1), Bucket |-> oBucket.value]
     /\ response = some(indexHandler(PrimaryFetched).response)
     /\ Console = indexHandler(PrimaryFetched).console

C19_Witness ==
  /\ Finished
  /\ impl = "part_000"
  /\ Len(Requests) = 1
  /\ isRight(Results[1].arg)
  /\ DOMAIN Results[1].arg.value = {"Body", "ContentType", "ETag"}
  /\ Results[1].arg.value.ContentType = "text/plain"
  /\ response = some(indexHandler(PrimaryFetched).response)
  /\ response.value.statusCode = 200

====
